---- MODULE Spec2Model ----
(***************************************************************************)
(* Bootstore scheme v0: the per-peer trust-quorum state machine (Fsm,      *)
(* bootstore/src/schemes/v0/fsm.rs) and the request tracker                *)
(* (RequestManager, bootstore/src/schemes/v0/fsm2.rs).                     *)
(*                                                                         *)
(* Spec     : one Fsm driven through its API, with the messages its rack   *)
(*            may send it.                                                 *)
(* SpecLive : Spec under a driver that keeps delivering ticks.             *)
(* SpecRack : a rack of Fsm instances joined by a network that may delay,  *)
(*            reorder and duplicate messages.                              *)
(* SpecRM   : one RequestManager driven through its API.                   *)
(* The per-state handlers (state_*.rs), create_pkgs and the Output/message *)
(* helpers are not part of the sources at hand; they are modelled from the *)
(* written specification and marked as such in the model map.              *)
(***************************************************************************)
EXTENDS Integers, Sequences, FiniteSets, TLC

\* ------------------------------------------------------------------ bounds
\* ticks delivered to a peer
MaxClock == 2
\* successful splits (rack initializations started) in one run
MaxRackInits == 1
\* requests one RequestManager is asked to track in one run
MaxRequests == 2

\* the rack of the concrete scenario: three sleds, ordered by id
Peers == {1, 2, 3}

\* Config (fsm2.rs Config): timeouts in ticks
Config == [learn_timeout |-> 2, rack_init_timeout |-> 2,
           rack_secret_request_timeout |-> 1]

\* Secret material the split primitive may draw
Secrets == {2, 5}

\* The finite field the shares live in
GF == 0..6
P == Cardinality(GF)

VARIABLES
    fsm,      \* fsm[p]: Fsm.state of peer p
    common,   \* common[p]: Fsm.common of peer p (clock, peers, pending marker)
    net,      \* messages handed to the driver for transmission
    out,      \* the operation performed last and the Output it returned
    racks,    \* number of successful splits so far
    nreq,     \* nreq[p]: number of request ids peer p has minted
    done,     \* done[p]: number of RackInitComplete outputs returned at p
    ticks,    \* ticks[p]: number of tick() calls delivered to peer p
    me,       \* the Fsm under test when a single Fsm is driven (0: the whole rack)
    world,    \* the rack the driven Fsm lives in: membership, threshold, secret
    requests,     \* RequestManager.requests: request id -> TrackableRequest
    expiry_to_id, \* RequestManager.expiry_to_id: expiry -> request id
    now,          \* the Instant the caller passes to the RequestManager
    next_id,      \* number of request ids the RequestManager has minted
    ret,          \* the RequestManager call made last and what it returned
    panicked,     \* a RequestManager call has panicked
    ledger        \* per request id: who answered it, and how often it completed

fsmvars == <<fsm, common, net, out, racks, nreq, done, ticks, me, world>>
rmvars == <<requests, expiry_to_id, now, next_id, ret, panicked, ledger>>
vars == <<fsm, common, net, out, racks, nreq, done, ticks, me, world,
          requests, expiry_to_id, now, next_id, ret, panicked, ledger>>

\* ------------------------------------------------------------------ values
\* Option<T> is a set with at most one element
NoneV == {}
Some(x) == {x}
The(s) == CHOOSE x \in s : TRUE

EmptyMap == [q \in {} |-> 0]

MapPut(m, k, v) == [q \in (DOMAIN m) \cup {k} |-> IF q = k THEN v ELSE m[q]]

RECURSIVE SortedSeq(_)
MapRemove(m, k) == [q \in (DOMAIN m) \ {k} |-> m[q]]

SortedSeq(S) ==
    IF S = {} THEN << >>
    ELSE LET m == CHOOSE x \in S : \A y \in S : x <= y
         IN <<m>> \o SortedSeq(S \ {m})

\* ------------------------------------------------- threshold secret sharing
Mod(a) == ((a % P) + P) % P

Inv(a) == CHOOSE b \in 1..(P - 1) : Mod(a * b) = 1

RECURSIVE Pow(_, _)
Pow(x, k) == IF k = 0 THEN 1 ELSE Mod(x * Pow(x, k - 1))

\* k-th coefficient of the sharing polynomial drawn for `secret`
Coeff(secret, k) == Mod(secret + k)

RECURSIVE PolyTerms(_, _, _)
PolyTerms(secret, x, k) ==
    IF k = 0 THEN secret
    ELSE Mod(Coeff(secret, k) * Pow(x, k) + PolyTerms(secret, x, k - 1))

\* value at x of the degree threshold-1 polynomial whose constant term is secret
Poly(secret, threshold, x) == PolyTerms(secret, x, threshold - 1)

RECURSIVE Basis(_, _, _)
Basis(xs, xi, z) ==
    IF xs = {} THEN 1
    ELSE LET xj == CHOOSE x \in xs : TRUE
         IN IF xj = xi THEN Basis(xs \ {xj}, xi, z)
            ELSE Mod(Mod(z - xj) * Inv(Mod(xi - xj)) * Basis(xs \ {xj}, xi, z))

RECURSIVE InterpSum(_, _, _)
InterpSum(todo, shares, z) ==
    IF todo = {} THEN 0
    ELSE LET s == CHOOSE x \in todo : TRUE
         IN Mod(s.y * Basis({t.x : t \in shares}, s.x, z)
                + InterpSum(todo \ {s}, shares, z))

\* Lagrange interpolation at z of the polynomial through the points `shares`
Interpolate(shares, z) == InterpSum(shares, shares, z)

\* reconstruct(collected_shares) -> secret
Reconstruct(shares) == Interpolate(shares, 0)

SharePkg(rack_uuid, threshold, share) ==
    [rack_uuid |-> rack_uuid, threshold |-> threshold, share |-> share]

\* split(secret, rack_uuid, members): one package per member, in member order;
\* the split fails when no threshold 2 <= T <= N exists
CreatePkgs(rack_uuid, M, threshold, secret) ==
    IF Cardinality(M) < 2 \/ threshold < 2 \/ threshold > Cardinality(M)
    THEN [ok |-> FALSE, pkgs |-> << >>]
    ELSE LET members == SortedSeq(M)
         IN [ok |-> TRUE,
             pkgs |-> [i \in 1..Len(members) |->
                 SharePkg(rack_uuid, threshold,
                     [x |-> members[i],
                      y |-> Poly(secret, threshold, members[i])])]]

\* ------------------------------------------------------------------ messages
Request(id, type, body) == [kind |-> "Req", id |-> id, type |-> type, body |-> body]
Response(request_id, type, body) ==
    [kind |-> "Rsp", id |-> request_id, type |-> type, body |-> body]
Envelope(to, msg) == [to |-> to, msg |-> msg]

\* Output (fsm_output.rs)
Output(persist, envelopes, api_output) ==
    [persist |-> persist, envelopes |-> envelopes, api_output |-> api_output]
OutputNone == Output(FALSE, << >>, NoneV)
ApiErr(e) == Output(FALSE, << >>, Some([tag |-> "Err", val |-> e, data |-> 0]))
ApiOk(v, d) == Output(FALSE, << >>, Some([tag |-> "Ok", val |-> v, data |-> d]))

\* Uuid::new_v4(): the n-th id minted by peer p
NewId(p) == <<p, nreq[p] + 1>>

\* ------------------------------------------------------------------ state
RackSecretNone == [tag |-> "None", shares |-> EmptyMap, secret |-> 0]
RackSecretShares(m) == [tag |-> "Shares", shares |-> m, secret |-> 0]
RackSecretSecret(s) == [tag |-> "Secret", shares |-> EmptyMap, secret |-> s]

RackInitState(start, total_members, acks) ==
    [start |-> start, total_members |-> total_members, acks |-> acks]

Uninitialized ==
    [state |-> "Uninitialized", pkg |-> NoneV, rack_init_state |-> NoneV,
     rack_secret_state |-> RackSecretNone, pending_learn_requests |-> EmptyMap,
     distributed_shares |-> EmptyMap, attempt |-> NoneV]

InitialMemberState(pkg, rack_init_state) ==
    [state |-> "InitialMember", pkg |-> Some(pkg),
     rack_init_state |-> rack_init_state,
     rack_secret_state |-> RackSecretNone, pending_learn_requests |-> EmptyMap,
     distributed_shares |-> EmptyMap, attempt |-> NoneV]

LearningState(attempt) ==
    [state |-> "Learning", pkg |-> NoneV, rack_init_state |-> NoneV,
     rack_secret_state |-> RackSecretNone, pending_learn_requests |-> EmptyMap,
     distributed_shares |-> EmptyMap, attempt |-> attempt]

LearnedState(pkg) ==
    [state |-> "Learned", pkg |-> Some(pkg), rack_init_state |-> NoneV,
     rack_secret_state |-> RackSecretNone, pending_learn_requests |-> EmptyMap,
     distributed_shares |-> EmptyMap, attempt |-> NoneV]

FsmCommonData ==
    [clock |-> 0, peers |-> {}, pending_api_rack_secret_request |-> NoneV]

\* what the driver sees of a call: the operation, the peer, the returned Output
Op(op, p, output) == [op |-> op, peer |-> p, output |-> output]

\* the messages the driver transmits for the returned envelopes
Sent(p, envelopes) ==
    {[from |-> p, to |-> envelopes[i].to, msg |-> envelopes[i].msg] :
        i \in 1..Len(envelopes)}

\* a handler's result: the next State, the next FsmCommonData, the Output
Result(st, cd, output) == [state |-> st, common |-> cd, output |-> output]

\* Output::respond: one response envelope to the requester, under the request's id
Respond(persist, to, request_id, type, body) ==
    Output(persist, <<Envelope(to, Response(request_id, type, body))>>, NoneV)


\* ------------------------------------------------------------------ init_rack
\* a filter_map that does not leave out the caller's own id
RECURSIVE InitEnvelopesFromAll(_, _, _, _, _)
InitEnvelopesFromAll(i, id, request_id, pkgs, members) ==
    IF i > Len(pkgs) \/ i > Len(members) THEN << >>
    ELSE <<Envelope(members[i], Request(request_id, "Init", Some(pkgs[i])))>>
         \o InitEnvelopesFromAll(i + 1, id, request_id, pkgs, members)

\* a zip of the packages with the members left after the caller is filtered out
RECURSIVE InitEnvelopesFromShifted(_, _, _, _, _)
InitEnvelopesFromShifted(i, id, request_id, pkgs, members) ==
    IF i > Len(pkgs) \/ i > Len(members) THEN << >>
    ELSE IF members[i] = id
         THEN InitEnvelopesFromShifted(i + 1, id, request_id, pkgs, members)
         ELSE LET j == Cardinality({k \in 1..i : members[k] # id})
              IN <<Envelope(members[i], Request(request_id, "Init", Some(pkgs[j])))>>
                 \o InitEnvelopesFromShifted(i + 1, id, request_id, pkgs, members)

\* a closure that starts the ack set empty instead of with the caller
InitRackStateNoSelfAck(id, clock, total_members, pkgs, members, old) ==
    IF \E i \in 1..Len(members) : i <= Len(pkgs) /\ members[i] = id
    THEN LET i == CHOOSE j \in 1..Len(members) : members[j] = id
         IN InitialMemberState(pkgs[i],
                Some(RackInitState(clock, total_members, {})))
    ELSE old

\* the filter_map over pkgs zipped with the membership
RECURSIVE InitEnvelopesFrom(_, _, _, _, _)
InitEnvelopesFrom(i, id, request_id, pkgs, members) ==
    IF i > Len(pkgs) \/ i > Len(members) THEN << >>
    ELSE IF members[i] = id
         THEN InitEnvelopesFrom(i + 1, id, request_id, pkgs, members)
         ELSE <<Envelope(members[i], Request(request_id, "Init", Some(pkgs[i])))>>
              \o InitEnvelopesFrom(i + 1, id, request_id, pkgs, members)

InitEnvelopes(id, request_id, pkgs, members) ==
    InitEnvelopesFrom(1, id, request_id, pkgs, members)

\* the state the closure assigns when it meets the caller's own id
InitRackState(id, clock, total_members, pkgs, members, old) ==
    IF \E i \in 1..Len(members) : i <= Len(pkgs) /\ members[i] = id
    THEN LET i == CHOOSE j \in 1..Len(members) : members[j] = id
         IN InitialMemberState(pkgs[i],
                Some(RackInitState(clock, total_members, {id})))
    ELSE old

\* an init_rack that does not look at the current state
InitRackResultReinit(id, st, cd, rack_uuid, M, threshold, secret, request_id) ==
    LET r == CreatePkgs(rack_uuid, M, threshold, secret)
        members == SortedSeq(M)
    IN IF r.ok
       THEN Result(InitRackState(id, cd.clock, Cardinality(M), r.pkgs, members, st),
                   cd,
                   Output(TRUE, InitEnvelopes(id, request_id, r.pkgs, members), NoneV))
       ELSE Result(st, cd, ApiErr("RackInitFailed"))

\* Fsm::init_rack
InitRackResult(id, st, cd, rack_uuid, M, threshold, secret, request_id) ==
    IF st.state # "Uninitialized"
    THEN Result(st, cd, ApiErr("RackAlreadyInitialized"))
    ELSE LET total_members == Cardinality(M)
             r == CreatePkgs(rack_uuid, M, threshold, secret)
             members == SortedSeq(M)
         IN IF r.ok
            THEN Result(InitRackState(id, cd.clock, total_members, r.pkgs, members, st),
                        cd,
                        Output(TRUE, InitEnvelopes(id, request_id, r.pkgs, members),
                               NoneV))
            ELSE Result(st, cd, ApiErr("RackInitFailed"))

\* --------------------------------------------------------- load_rack_secret
\* a load_rack_secret that starts collecting without the peer's own share
LoadRackSecretResultNoSeed(id, st, cd) ==
    IF st.state = "Uninitialized" THEN Result(st, cd, ApiErr("RackNotInitialized"))
    ELSE IF st.state = "Learning" THEN Result(st, cd, ApiErr("StillLearning"))
    ELSE IF st.rack_secret_state.tag = "None"
         THEN Result([st EXCEPT !.rack_secret_state = RackSecretShares(EmptyMap)],
                     [cd EXCEPT !.pending_api_rack_secret_request = Some(cd.clock)],
                     OutputNone)
    ELSE IF st.rack_secret_state.tag = "Shares"
         THEN Result(st,
                [cd EXCEPT !.pending_api_rack_secret_request = Some(cd.clock)],
                OutputNone)
    ELSE Result(st, cd, ApiOk("RackSecret", st.rack_secret_state.secret))

\* a load_rack_secret that does not record the pending request
LoadRackSecretResultNoMarker(id, st, cd) ==
    IF st.state = "Uninitialized" THEN Result(st, cd, ApiErr("RackNotInitialized"))
    ELSE IF st.state = "Learning" THEN Result(st, cd, ApiErr("StillLearning"))
    ELSE IF st.rack_secret_state.tag = "None"
         THEN Result(
                [st EXCEPT !.rack_secret_state =
                    RackSecretShares(MapPut(EmptyMap, id, The(st.pkg).share))],
                cd, OutputNone)
    ELSE IF st.rack_secret_state.tag = "Shares"
         THEN Result(st, cd, OutputNone)
    ELSE Result(st, cd, ApiOk("RackSecret", st.rack_secret_state.secret))

\* a load_rack_secret that starts the collection afresh when one is under way
LoadRackSecretResultReseed(id, st, cd) ==
    IF st.state = "Uninitialized" THEN Result(st, cd, ApiErr("RackNotInitialized"))
    ELSE IF st.state = "Learning" THEN Result(st, cd, ApiErr("StillLearning"))
    ELSE IF st.rack_secret_state.tag \in {"None", "Shares"}
         THEN Result(
                [st EXCEPT !.rack_secret_state =
                    RackSecretShares(MapPut(EmptyMap, id, The(st.pkg).share))],
                [cd EXCEPT !.pending_api_rack_secret_request = Some(cd.clock)],
                OutputNone)
    ELSE Result(st, cd, ApiOk("RackSecret", st.rack_secret_state.secret))

\* a load_rack_secret that records a pending request even when the secret is
\* already at hand
LoadRackSecretResultMarkResolved(id, st, cd) ==
    IF st.state = "Uninitialized" THEN Result(st, cd, ApiErr("RackNotInitialized"))
    ELSE IF st.state = "Learning" THEN Result(st, cd, ApiErr("StillLearning"))
    ELSE IF st.rack_secret_state.tag = "None"
         THEN Result(
                [st EXCEPT !.rack_secret_state =
                    RackSecretShares(MapPut(EmptyMap, id, The(st.pkg).share))],
                [cd EXCEPT !.pending_api_rack_secret_request = Some(cd.clock)],
                OutputNone)
    ELSE IF st.rack_secret_state.tag = "Shares"
         THEN Result(st,
                [cd EXCEPT !.pending_api_rack_secret_request = Some(cd.clock)],
                OutputNone)
    ELSE Result(st,
                [cd EXCEPT !.pending_api_rack_secret_request = Some(cd.clock)],
                ApiOk("RackSecret", st.rack_secret_state.secret))

\* a load_rack_secret that records the pending request before it looks at the
\* protocol state
LoadRackSecretResultMarkFirst(id, st, cd) ==
    LET marked == [cd EXCEPT !.pending_api_rack_secret_request = Some(cd.clock)]
    IN IF st.state = "Uninitialized"
       THEN Result(st, marked, ApiErr("RackNotInitialized"))
       ELSE IF st.state = "Learning" THEN Result(st, marked, ApiErr("StillLearning"))
       ELSE IF st.rack_secret_state.tag = "None"
            THEN Result(
                   [st EXCEPT !.rack_secret_state =
                       RackSecretShares(MapPut(EmptyMap, id, The(st.pkg).share))],
                   marked, OutputNone)
       ELSE IF st.rack_secret_state.tag = "Shares"
            THEN Result(st, marked, OutputNone)
       ELSE Result(st, cd, ApiOk("RackSecret", st.rack_secret_state.secret))

\* Fsm::load_rack_secret
LoadRackSecretResult(id, st, cd) ==
    IF st.state = "Uninitialized" THEN Result(st, cd, ApiErr("RackNotInitialized"))
    ELSE IF st.state = "Learning" THEN Result(st, cd, ApiErr("StillLearning"))
    ELSE IF st.rack_secret_state.tag = "None"
         THEN Result(
                [st EXCEPT !.rack_secret_state =
                    RackSecretShares(MapPut(EmptyMap, id, The(st.pkg).share))],
                [cd EXCEPT !.pending_api_rack_secret_request = Some(cd.clock)],
                OutputNone)
    ELSE IF st.rack_secret_state.tag = "Shares"
         THEN Result(st,
                [cd EXCEPT !.pending_api_rack_secret_request = Some(cd.clock)],
                OutputNone)
    ELSE Result(st, cd, ApiOk("RackSecret", st.rack_secret_state.secret))

\* ------------------------------------------------------------ init_learner
\* a new_attempt whose deadline is the current clock
NewAttemptNoTimeout(id, cd, q, request_id) ==
    IF q = 0
    THEN Result(LearningState(NoneV), cd, OutputNone)
    ELSE Result(
            LearningState(Some([peer |-> q, expiry |-> cd.clock])),
            cd,
            Output(FALSE, <<Envelope(q, Request(request_id, "Learn", {}))>>, NoneV))

\* LearningState::new_attempt towards peer q (q = 0: no peer is known)
NewAttempt(id, cd, q, request_id) ==
    IF q = 0
    THEN Result(LearningState(NoneV), cd, OutputNone)
    ELSE Result(
            LearningState(Some([peer |-> q,
                                expiry |-> cd.clock + Config.learn_timeout])),
            cd,
            Output(FALSE, <<Envelope(q, Request(request_id, "Learn", {}))>>, NoneV))

AttemptTargets(cd) == IF cd.peers = {} THEN {0} ELSE cd.peers

\* an init_learner that does not look at the current state
InitLearnerResultRestart(id, st, cd, q, request_id) ==
    NewAttempt(id, cd, q, request_id)

\* Fsm::init_learner
InitLearnerResult(id, st, cd, q, request_id) ==
    IF st.state # "Uninitialized"
    THEN Result(st, cd, ApiErr("PeerAlreadyInitialized"))
    ELSE NewAttempt(id, cd, q, request_id)

\* ------------------------------------------------- insert_peer, remove_peer
InsertPeerResult(st, cd, peer) ==
    Result(st, [cd EXCEPT !.peers = @ \cup {peer}], OutputNone)

\* a remove_peer that also forgets what the removed peer has contributed
RemovePeerResultForget(st, cd, peer) ==
    Result([st EXCEPT !.rack_secret_state.shares = MapRemove(@, peer),
                      !.rack_init_state =
                          IF @ = NoneV THEN @
                          ELSE Some([The(@) EXCEPT !.acks = @ \ {peer}])],
           [cd EXCEPT !.peers = @ \ {peer}], OutputNone)

RemovePeerResult(st, cd, peer) ==
    Result(st, [cd EXCEPT !.peers = @ \ {peer}], OutputNone)

\* -------------------------------------------------------- request handlers
\* an Init handler that acknowledges without asking for the package to be saved
UninitializedHandleRequestNoPersist(st, cd, from, request_id, type, body) ==
    IF type = "Init"
    THEN Result(InitialMemberState(The(body), NoneV), cd,
                Respond(FALSE, from, request_id, "InitAck", {}))
    ELSE Result(st, cd, OutputNone)

UninitializedHandleRequest(st, cd, from, request_id, type, body) ==
    IF type = "Init"
    THEN Result(InitialMemberState(The(body), NoneV), cd,
                Respond(TRUE, from, request_id, "InitAck", {}))
    ELSE Result(st, cd, OutputNone)

\* GetShare at a peer that holds a package
HandleGetShare(st, cd, from, request_id, body) ==
    IF The(body) = The(st.pkg).rack_uuid
    THEN Result(st, cd,
                Respond(FALSE, from, request_id, "Share", Some(The(st.pkg).share)))
    ELSE Result(st, cd, OutputNone)

InitialMemberHandleRequest(st, cd, from, request_id, type, body) ==
    IF type = "GetShare" THEN HandleGetShare(st, cd, from, request_id, body)
    ELSE IF type = "Learn"
    THEN Result([st EXCEPT !.pending_learn_requests = MapPut(@, from, request_id)],
                cd, OutputNone)
    ELSE Result(st, cd, OutputNone)

LearnedHandleRequest(st, cd, from, request_id, type, body) ==
    IF type = "GetShare" THEN HandleGetShare(st, cd, from, request_id, body)
    ELSE Result(st, cd, OutputNone)

LearningHandleRequest(st, cd, from, request_id, type, body) ==
    Result(st, cd, OutputNone)

\* Fsm::handle_request
HandleRequest(st, cd, from, request_id, type, body) ==
    IF st.state = "Uninitialized"
    THEN UninitializedHandleRequest(st, cd, from, request_id, type, body)
    ELSE IF st.state = "InitialMember"
    THEN InitialMemberHandleRequest(st, cd, from, request_id, type, body)
    ELSE IF st.state = "Learned"
    THEN LearnedHandleRequest(st, cd, from, request_id, type, body)
    ELSE LearningHandleRequest(st, cd, from, request_id, type, body)

\* ------------------------------------------------------- response handlers
\* InitAck at the initializer
OnInitAck(st, cd, from) ==
    IF st.rack_init_state = NoneV THEN Result(st, cd, OutputNone)
    ELSE LET ris == The(st.rack_init_state)
             acks == ris.acks \cup {from}
         IN IF Cardinality(acks) = ris.total_members
            THEN Result([st EXCEPT !.rack_init_state = NoneV], cd,
                        ApiOk("RackInitComplete", 0))
            ELSE Result([st EXCEPT !.rack_init_state =
                            Some([ris EXCEPT !.acks = acks])], cd, OutputNone)

\* the packages handed to the learners waiting at this member, in peer order
RECURSIVE LearnEnvelopes(_, _, _)
LearnEnvelopes(learners, st, points) ==
    IF Len(learners) = 0 THEN << >>
    ELSE LET l == Head(learners)
             pkg == SharePkg(The(st.pkg).rack_uuid, The(st.pkg).threshold,
                             [x |-> l, y |-> Interpolate(points, l)])
         IN <<Envelope(l, Response(st.pending_learn_requests[l], "Pkg", Some(pkg)))>>
            \o LearnEnvelopes(Tail(learners), st, points)

\* a share-bearing response at a peer that holds a package
OnShare(st, cd, from, share) ==
    IF st.rack_secret_state.tag # "Shares" THEN Result(st, cd, OutputNone)
    ELSE LET shares == MapPut(st.rack_secret_state.shares, from, share)
             points == {shares[q] : q \in DOMAIN shares}
         IN IF Cardinality(DOMAIN shares) = The(st.pkg).threshold
            THEN LET secret == Reconstruct(points)
                     learners == SortedSeq(DOMAIN st.pending_learn_requests)
                 IN Result(
                      [st EXCEPT !.rack_secret_state = RackSecretSecret(secret),
                                 !.pending_learn_requests = EmptyMap,
                                 !.distributed_shares =
                                     [l \in (DOMAIN @) \cup DOMAIN st.pending_learn_requests
                                        |-> l]],
                      [cd EXCEPT !.pending_api_rack_secret_request = NoneV],
                      Output(FALSE, LearnEnvelopes(learners, st, points),
                             IF cd.pending_api_rack_secret_request = NoneV
                             THEN NoneV
                             ELSE Some([tag |-> "Ok", val |-> "RackSecret",
                                        data |-> secret])))
            ELSE Result([st EXCEPT !.rack_secret_state = RackSecretShares(shares)],
                        cd, OutputNone)

InitialMemberHandleResponse(st, cd, from, request_id, type, body) ==
    IF type = "InitAck" THEN OnInitAck(st, cd, from)
    ELSE IF type = "Share" THEN OnShare(st, cd, from, The(body))
    ELSE Result(st, cd, OutputNone)

LearnedHandleResponse(st, cd, from, request_id, type, body) ==
    IF type = "Share" THEN OnShare(st, cd, from, The(body))
    ELSE Result(st, cd, OutputNone)

LearningHandleResponse(st, cd, from, request_id, type, body) ==
    IF type = "Pkg"
    THEN Result(LearnedState(The(body)), cd, Output(TRUE, << >>, NoneV))
    ELSE Result(st, cd, OutputNone)

\* Fsm::handle_response
HandleResponse(st, cd, from, request_id, type, body) ==
    IF st.state = "InitialMember"
    THEN InitialMemberHandleResponse(st, cd, from, request_id, type, body)
    ELSE IF st.state = "Learned"
    THEN LearnedHandleResponse(st, cd, from, request_id, type, body)
    ELSE IF st.state = "Learning"
    THEN LearningHandleResponse(st, cd, from, request_id, type, body)
    ELSE Result(st, cd, OutputNone)

\* Fsm::handle
HandleResult(st, cd, from, msg) ==
    IF msg.kind = "Req"
    THEN HandleRequest(st, cd, from, msg.id, msg.type, msg.body)
    ELSE HandleResponse(st, cd, from, msg.id, msg.type, msg.body)

\* ------------------------------------------------------------------ tick
\* GetShare requests to the known peers whose share is still missing
RECURSIVE GetShareEnvelopes(_, _, _)
GetShareEnvelopes(targets, request_id, rack_uuid) ==
    IF Len(targets) = 0 THEN << >>
    ELSE <<Envelope(Head(targets), Request(request_id, "GetShare", Some(rack_uuid)))>>
         \o GetShareEnvelopes(Tail(targets), request_id, rack_uuid)

MemberTick(id, st, cd, request_id) ==
    IF st.rack_secret_state.tag # "Shares" THEN Result(st, cd, OutputNone)
    ELSE IF /\ cd.pending_api_rack_secret_request # NoneV
            /\ cd.clock - The(cd.pending_api_rack_secret_request)
                 > Config.rack_secret_request_timeout
    THEN Result([st EXCEPT !.rack_secret_state = RackSecretNone],
                [cd EXCEPT !.pending_api_rack_secret_request = NoneV],
                ApiErr("RackSecretLoadTimeout"))
    ELSE Result(st, cd,
                Output(FALSE,
                       GetShareEnvelopes(
                           SortedSeq(cd.peers \ DOMAIN st.rack_secret_state.shares),
                           request_id, The(st.pkg).rack_uuid),
                       NoneV))

\* LearningState::tick: a learner without an attempt tries to start one; an
\* attempt whose deadline has come is retried with a known peer, or given up
\* with a failure to the caller when no peer is known (q = 0)
LearningTick(id, st, cd, q, request_id) ==
    IF st.attempt = NoneV
    THEN NewAttempt(id, cd, q, request_id)
    ELSE IF cd.clock >= The(st.attempt).expiry
    THEN IF q = 0
         THEN Result(LearningState(NoneV), cd, ApiErr("LearnTimeout"))
         ELSE NewAttempt(id, cd, q, request_id)
    ELSE Result(st, cd, OutputNone)

StateTick(id, st, cd, q, request_id) ==
    IF st.state = "Uninitialized" THEN Result(st, cd, OutputNone)
    ELSE IF st.state = "Learning" THEN LearningTick(id, st, cd, q, request_id)
    ELSE MemberTick(id, st, cd, request_id)

\* a tick that only delegates to the state's handler
TickResultNoAdvance(id, st, cd, q, request_id) ==
    StateTick(id, st, cd, q, request_id)

\* a tick that lets the state's handler run before the clock advances
TickResultLate(id, st, cd, q, request_id) ==
    LET r == StateTick(id, st, cd, q, request_id)
    IN Result(r.state, [r.common EXCEPT !.clock = @ + 1], r.output)

\* Fsm::tick
TickResult(id, st, cd, q, request_id) ==
    StateTick(id, st, [cd EXCEPT !.clock = @ + 1], q, request_id)

\* the peers a tick may choose a new learn attempt from
TickTargets(st, cd) ==
    IF st.state = "Learning" /\ (st.attempt = NoneV \/ cd.clock + 1 >= The(st.attempt).expiry)
    THEN AttemptTargets(cd) ELSE {0}

\* ------------------------------------------------------------------ actions
\* install a result at peer p; `sent` are the messages the driver puts on the wire
Apply(p, op, r, sent) ==
    /\ fsm' = [fsm EXCEPT ![p] = r.state]
    /\ common' = [common EXCEPT ![p] = r.common]
    /\ out' = Op(op, p, r.output)
    /\ net' = net \cup sent
    /\ nreq' = [nreq EXCEPT ![p] =
                  IF \E i \in 1..Len(r.output.envelopes) :
                        r.output.envelopes[i].msg.kind = "Req"
                  THEN @ + 1 ELSE @]
    /\ done' = [done EXCEPT ![p] =
                  IF /\ r.output.api_output # NoneV
                     /\ The(r.output.api_output).val = "RackInitComplete"
                  THEN @ + 1 ELSE @]
    /\ racks' = IF op = "init_rack" /\ r.output.persist THEN racks + 1 ELSE racks
    /\ ticks' = [ticks EXCEPT ![p] = IF op = "tick" THEN @ + 1 ELSE @]
    /\ UNCHANGED <<me, world>>
    /\ UNCHANGED rmvars

Wire(p, r, wired) == IF wired THEN Sent(p, r.output.envelopes) ELSE {}

InitRackAt(p, rack_uuid, M, threshold, secret, wired) ==
    LET r == InitRackResult(p, fsm[p], common[p], rack_uuid, M, threshold, secret,
                            NewId(p))
    IN Apply(p, "init_rack", r, Wire(p, r, wired))

InitLearnerAt(p, wired) ==
    \E q \in AttemptTargets(common[p]) :
        LET r == InitLearnerResult(p, fsm[p], common[p], q, NewId(p))
        IN Apply(p, "init_learner", r, Wire(p, r, wired))

LoadRackSecretAt(p, wired) ==
    LET r == LoadRackSecretResult(p, fsm[p], common[p])
    IN Apply(p, "load_rack_secret", r, Wire(p, r, wired))

TickAt(p, wired) ==
    /\ common[p].clock < MaxClock
    /\ \E q \in TickTargets(fsm[p], common[p]) :
         LET r == TickResult(p, fsm[p], common[p], q, NewId(p))
         IN Apply(p, "tick", r, Wire(p, r, wired))

InsertPeerAt(p, q) ==
    Apply(p, "insert_peer", InsertPeerResult(fsm[p], common[p], q), {})

RemovePeerAt(p, q) ==
    Apply(p, "remove_peer", RemovePeerResult(fsm[p], common[p], q), {})

HandleAt(p, from, msg, wired) ==
    LET r == HandleResult(fsm[p], common[p], from, msg)
    IN Apply(p, "handle", r, Wire(p, r, wired))

\* ------------------------------------------------------- RequestManager
\* InitAcks::default(): nobody expected, nobody received
InitAcks == [expected |-> {}, received |-> {}, threshold |-> 0, shares |-> EmptyMap]

\* ShareAcks::new (its `received` map is the field `shares` here)
ShareAcks(threshold) ==
    [expected |-> {}, received |-> {}, threshold |-> threshold, shares |-> EmptyMap]

TrackableRequest(type, rack_uuid, packages, from, acks) ==
    [type |-> type, rack_uuid |-> rack_uuid, packages |-> packages,
     from |-> from, acks |-> acks]

\* what a RequestManager call leaves behind: both maps, the value returned,
\* and whether the call panicked
RMResult(reqs, e2i, val, panic) ==
    [requests |-> reqs, expiry_to_id |-> e2i, val |-> val, panicked |-> panic]

\* RequestManager::new_request, with `id` the Uuid it mints
new_request(reqs, e2i, id, expiry, request) ==
    RMResult(MapPut(reqs, id, request), MapPut(e2i, expiry, id), id, FALSE)

new_init_rack(reqs, e2i, id, t, rack_uuid, packages) ==
    LET expiry == t + Config.rack_init_timeout
        req == TrackableRequest("InitRack", rack_uuid, packages, 0, InitAcks)
    IN new_request(reqs, e2i, id, expiry, req)

new_load_rack_secret(reqs, e2i, id, t, rack_uuid, threshold) ==
    LET expiry == t + Config.rack_secret_request_timeout
    IN new_request(reqs, e2i, id, expiry,
           TrackableRequest("LoadRackSecret", rack_uuid, EmptyMap, 0,
                            ShareAcks(threshold)))

new_learn(reqs, e2i, id, t, rack_uuid, threshold, from) ==
    LET expiry == t + Config.learn_timeout
    IN new_request(reqs, e2i, id, expiry,
           TrackableRequest("Learn", rack_uuid, EmptyMap, from,
                            ShareAcks(threshold)))

\* the `while let Some(..) = pop_last()` loop of RequestManager::expired
RECURSIVE ExpiredLoop(_, _, _, _)
ExpiredLoop(reqs, e2i, t, acc) ==
    IF DOMAIN e2i = {} THEN RMResult(reqs, e2i, acc, FALSE)
    ELSE LET expiry == CHOOSE e \in DOMAIN e2i : \A f \in DOMAIN e2i : f <= e
             request_id == e2i[expiry]
             popped == MapRemove(e2i, expiry)
         IN IF expiry > t
            THEN IF request_id \in DOMAIN reqs
                 THEN ExpiredLoop(MapRemove(reqs, request_id), popped, t,
                                  Append(acc, reqs[request_id]))
                 ELSE RMResult(reqs, popped, acc, TRUE)
            ELSE RMResult(reqs, MapPut(popped, expiry, request_id), acc, FALSE)

\* RequestManager::expired
expired(reqs, e2i, t) == ExpiredLoop(reqs, e2i, t, << >>)

\* an on_init_ack that takes the request for granted: get_mut(..).unwrap()
on_init_ack_unwrap(reqs, e2i, from, request_id) ==
    IF request_id \notin DOMAIN reqs
    THEN RMResult(reqs, e2i, FALSE, TRUE)
    ELSE IF reqs[request_id].type = "InitRack"
    THEN LET acks == reqs[request_id].acks
             received == acks.received \cup {from}
         IN IF received = acks.expected
            THEN RMResult(MapRemove(reqs, request_id), e2i, TRUE, FALSE)
            ELSE RMResult([reqs EXCEPT ![request_id].acks.received = received],
                          e2i, FALSE, FALSE)
    ELSE RMResult(reqs, e2i, FALSE, FALSE)

\* RequestManager::on_init_ack
on_init_ack(reqs, e2i, from, request_id) ==
    IF request_id \in DOMAIN reqs /\ reqs[request_id].type = "InitRack"
    THEN LET acks == reqs[request_id].acks
             received == acks.received \cup {from}
         IN IF received = acks.expected
            THEN RMResult(MapRemove(reqs, request_id), e2i, TRUE, FALSE)
            ELSE RMResult([reqs EXCEPT ![request_id].acks.received = received],
                          e2i, FALSE, FALSE)
    ELSE RMResult(reqs, e2i, FALSE, FALSE)

\* an on_share that counts the caller's own share towards the threshold
on_share_plus_own(reqs, e2i, from, request_id, share) ==
    IF request_id \in DOMAIN reqs
       /\ reqs[request_id].type \in {"LoadRackSecret", "Learn"}
    THEN LET acks == reqs[request_id].acks
             received == MapPut(acks.shares, from, share)
             updated == [reqs EXCEPT ![request_id].acks.shares = received]
         IN IF Cardinality(DOMAIN received) + 1 = acks.threshold
            THEN RMResult(MapRemove(updated, request_id), e2i,
                          Some(updated[request_id]), FALSE)
            ELSE RMResult(updated, e2i, NoneV, FALSE)
    ELSE RMResult(reqs, e2i, NoneV, FALSE)

\* RequestManager::on_share
on_share(reqs, e2i, from, request_id, share) ==
    IF request_id \in DOMAIN reqs
       /\ reqs[request_id].type \in {"LoadRackSecret", "Learn"}
    THEN LET acks == reqs[request_id].acks
             received == MapPut(acks.shares, from, share)
             updated == [reqs EXCEPT ![request_id].acks.shares = received]
         IN IF Cardinality(DOMAIN received) = acks.threshold
            THEN RMResult(MapRemove(updated, request_id), e2i,
                          Some(updated[request_id]), FALSE)
            ELSE RMResult(updated, e2i, NoneV, FALSE)
    ELSE RMResult(reqs, e2i, NoneV, FALSE)

\* an on_connected loop that sends every outstanding request again, whether
\* the peer has answered it or not
RECURSIVE ConnectedEnvelopesResend(_, _, _)
ConnectedEnvelopesResend(ids, reqs, peer_id) ==
    IF Len(ids) = 0 THEN << >>
    ELSE LET request_id == Head(ids)
             request == reqs[request_id]
             rest == ConnectedEnvelopesResend(Tail(ids), reqs, peer_id)
         IN IF request.type = "InitRack"
            THEN IF peer_id \in DOMAIN request.packages
                 THEN <<Envelope(peer_id,
                          Request(request_id, "Init",
                                  Some(request.packages[peer_id])))>> \o rest
                 ELSE rest
            ELSE <<Envelope(peer_id,
                     Request(request_id, "GetShare",
                             Some(request.rack_uuid)))>> \o rest

\* the loop of RequestManager::on_connected over the requests, in id order
RECURSIVE ConnectedEnvelopes(_, _, _)
ConnectedEnvelopes(ids, reqs, peer_id) ==
    IF Len(ids) = 0 THEN << >>
    ELSE LET request_id == Head(ids)
             request == reqs[request_id]
             rest == ConnectedEnvelopes(Tail(ids), reqs, peer_id)
         IN IF request.type = "InitRack"
            THEN IF peer_id \in request.acks.received THEN rest
                 ELSE IF peer_id \in DOMAIN request.packages
                 THEN <<Envelope(peer_id,
                          Request(request_id, "Init",
                                  Some(request.packages[peer_id])))>> \o rest
                 ELSE rest
            ELSE IF peer_id \in DOMAIN request.acks.shares THEN rest
                 ELSE <<Envelope(peer_id,
                          Request(request_id, "GetShare",
                                  Some(request.rack_uuid)))>> \o rest

\* RequestManager::on_connected
on_connected(reqs, e2i, peer_id) ==
    RMResult(reqs, e2i, ConnectedEnvelopes(SortedSeq(DOMAIN reqs), reqs, peer_id),
             FALSE)

\* what the caller sees of a RequestManager call
Call(op, id, val) == [op |-> op, id |-> id, val |-> val]

\* the ledger entry of a request nobody has answered yet; `awaited` are the
\* peers an InitRack request holds a package for
LedgerNew(awaited) ==
    [awaited |-> awaited, acked |-> {}, repeated |-> FALSE, completions |-> 0]

\* the ledger after peer `from` answered tracked request `id`
LedgerAnswer(l, id, from, completed) ==
    [l EXCEPT ![id] = [awaited |-> @.awaited,
                       acked |-> @.acked \cup {from},
                       repeated |-> @.repeated \/ from \in @.acked,
                       completions |-> @.completions + (IF completed THEN 1 ELSE 0)]]

\* ------------------------------------------------ Spec: one Fsm, driven
\* The racks the driven Fsm may find itself in
Worlds ==
    {w \in [uuid : {1}, M : {Peers, {1, 2}, {1, 3}},
            threshold : 2..Cardinality(Peers), secret : Secrets] :
        w.threshold <= Cardinality(w.M)}

\* the Fsm that is driven: the middle sled, with a peer on either side
Driven == {2}

NoWorld == [uuid |-> 0, M |-> {}, threshold |-> 0, secret |-> 0]

\* the share the rack's split (or a learn exchange) gives peer q
WorldShare(W, q) == [x |-> q, y |-> Poly(W.secret, W.threshold, q)]
WorldPkg(W, q) == SharePkg(W.uuid, W.threshold, WorldShare(W, q))

ReqIds(q) == {<<q, 1>>, <<q, 2>>}

\* the messages peer q may send to p in rack W
EnvMsgs(p, W, q) ==
    {Request(id, "Init", Some(WorldPkg(W, p))) : id \in
        IF p \in W.M /\ q \in W.M THEN ReqIds(q) ELSE {}}
    \cup {Request(<<q, 1>>, "GetShare", Some(u)) : u \in {W.uuid, W.uuid + 1}}
    \cup {Request(<<q, 1>>, "Learn", {}) : x \in
        IF q \notin W.M THEN {0} ELSE {}}
    \cup {Response(<<p, 1>>, "InitAck", {}) : x \in
        IF q \in W.M THEN {0} ELSE {}}
    \cup {Response(<<p, 1>>, "Share", Some(WorldShare(W, q)))}
    \cup {Response(<<p, 1>>, "Pkg", Some(WorldPkg(W, p))) : x \in
        IF p \notin W.M /\ q \in W.M THEN {0} ELSE {}}

\* Fsm::new_uninitialized at every peer
FsmNew ==
    /\ fsm = [p \in Peers |-> Uninitialized]
    /\ common = [p \in Peers |-> FsmCommonData]
    /\ net = {}
    /\ out = Op("new", 0, OutputNone)
    /\ racks = 0
    /\ nreq = [p \in Peers |-> 0]
    /\ done = [p \in Peers |-> 0]
    /\ ticks = [p \in Peers |-> 0]

\* a RequestManager that tracks nothing
RMNew ==
    /\ requests = EmptyMap
    /\ expiry_to_id = EmptyMap
    /\ now = 0
    /\ next_id = 0
    /\ ret = Call("new", 0, 0)
    /\ panicked = FALSE
    /\ ledger = EmptyMap

Init ==
    /\ FsmNew
    /\ RMNew
    /\ me \in Driven
    /\ world \in Worlds

InitRack ==
    \E M \in (IF racks < MaxRackInits THEN {world.M, {me}} ELSE {{me}}) :
        InitRackAt(me, world.uuid, M, world.threshold, world.secret, FALSE)

InitLearner == InitLearnerAt(me, FALSE)

LoadRackSecret == LoadRackSecretAt(me, FALSE)

Tick == TickAt(me, FALSE)

InsertPeer == \E q \in Peers \ {me} : InsertPeerAt(me, q)

RemovePeer == \E q \in Peers \ {me} : RemovePeerAt(me, q)

Handle ==
    \E q \in Peers \ {me} : \E msg \in EnvMsgs(me, world, q) :
        HandleAt(me, q, msg, FALSE)

Next ==
    \/ InitRack
    \/ InitLearner
    \/ LoadRackSecret
    \/ Tick
    \/ InsertPeer
    \/ RemovePeer
    \/ Handle

Spec == Init /\ [][Next]_vars

\* The same Fsm under a driver that keeps delivering ticks: the network layer
\* calls tick periodically for as long as the peer lives (here: until the
\* clock reaches MaxClock).
SpecLive == Init /\ [][Next]_vars /\ WF_vars(Tick)

\* ------------------------------------- SpecRack: the rack and its network
\* The rack of the property test: rack initialization runs over a network,
\* and the test's driver delivers messages but never calls tick on a peer.
RackInit ==
    /\ FsmNew
    /\ RMNew
    /\ me = 0
    /\ world = NoWorld

RackInitRack ==
    \E p \in Peers :
     \E M \in (IF fsm[p].state = "Uninitialized" /\ racks < MaxRackInits
                THEN SUBSET Peers ELSE {{p}}) :
      \E threshold \in (IF Cardinality(M) < 2 THEN {2} ELSE 2..Cardinality(M)) :
        \E secret \in (IF Cardinality(M) < 2 THEN {0} ELSE Secrets) :
            InitRackAt(p, racks + 1, M, threshold, secret, TRUE)

\* the network delivers a message (it may deliver it again later)
Deliver == \E m \in net : HandleAt(m.to, m.from, m.msg, TRUE)

RackNext ==
    \/ RackInitRack
    \/ Deliver

SpecRack == RackInit /\ [][RackNext]_vars

\* ------------------------------------- SpecRM: one RequestManager, driven
\* install the result of a RequestManager call
RMApply(r, call, l) ==
    /\ ~panicked
    /\ requests' = r.requests
    /\ expiry_to_id' = r.expiry_to_id
    /\ panicked' = r.panicked
    /\ ret' = call
    /\ ledger' = l
    /\ UNCHANGED now
    /\ UNCHANGED fsmvars

\* a request is created under the next fresh id
RMCreate(op, r) ==
    /\ next_id < MaxRequests
    /\ next_id' = next_id + 1
    /\ RMApply(r, Call(op, r.val, r.val), MapPut(ledger, r.val,
                      LedgerNew(DOMAIN r.requests[r.val].packages)))

\* the memberships a rack may be initialized over, and their packages
RMRacks ==
    {w \in [uuid : {1}, M : {{2, 3}}, threshold : {2}, secret : {5}] :
        TRUE}

RMNewInitRack ==
    \E W \in RMRacks :
        RMCreate("new_init_rack", new_init_rack(requests, expiry_to_id, next_id + 1, now, W.uuid,
                               [q \in W.M |-> WorldPkg(W, q)]))

RMNewLoadRackSecret ==
    \E threshold \in 2..Cardinality(Peers) :
        RMCreate("new_load_rack_secret", new_load_rack_secret(requests, expiry_to_id, next_id + 1, now,
                                      1, threshold))

RMNewLearn ==
    \E threshold \in {2} : \E from \in {3} :
        RMCreate("new_learn", new_learn(requests, expiry_to_id, next_id + 1, now, 1,
                           threshold, from))

RMExpired ==
    /\ UNCHANGED next_id
    /\ RMApply(expired(requests, expiry_to_id, now),
               Call("expired", 0, expired(requests, expiry_to_id, now).val),
               ledger)

RMOnInitAck ==
    \E from \in Peers : \E request_id \in 1..MaxRequests :
        LET r == on_init_ack(requests, expiry_to_id, from, request_id)
            tracked == request_id \in DOMAIN requests
                       /\ requests[request_id].type = "InitRack"
        IN /\ UNCHANGED next_id
           /\ RMApply(r, Call("on_init_ack", request_id, r.val),
                      IF tracked
                      THEN LedgerAnswer(ledger, request_id, from, r.val)
                      ELSE ledger)

\* the shares peer `from` may answer request `request_id` with
RMShares(from, request_id) ==
    LET T == IF request_id \in DOMAIN requests /\ requests[request_id].acks.threshold > 1
             THEN requests[request_id].acks.threshold ELSE 2
    IN {[x |-> from, y |-> Poly(secret, T, from)] : secret \in {5}}

RMOnShare ==
    \E from \in Peers : \E request_id \in 1..MaxRequests :
      \E share \in RMShares(from, request_id) :
        LET r == on_share(requests, expiry_to_id, from, request_id, share)
            tracked == request_id \in DOMAIN requests
                       /\ requests[request_id].type # "InitRack"
        IN /\ UNCHANGED next_id
           /\ RMApply(r, Call("on_share", request_id, r.val),
                      IF tracked
                      THEN LedgerAnswer(ledger, request_id, from, r.val # NoneV)
                      ELSE ledger)

RMOnConnected ==
    \E peer_id \in Peers :
        LET r == on_connected(requests, expiry_to_id, peer_id)
        IN /\ UNCHANGED next_id
           /\ RMApply(r, Call("on_connected", 0, r.val), ledger)

\* time passes between calls
RMAdvance ==
    /\ ~panicked
    /\ now < MaxClock
    /\ now' = now + 1
    /\ ret' = Call("advance", 0, 0)
    /\ UNCHANGED <<requests, expiry_to_id, next_id, panicked, ledger>>
    /\ UNCHANGED fsmvars

RMInit ==
    /\ FsmNew
    /\ RMNew
    /\ me = 0
    /\ world = NoWorld

RMNext ==
    \/ RMNewInitRack
    \/ RMNewLoadRackSecret
    \/ RMNewLearn
    \/ RMExpired
    \/ RMOnInitAck
    \/ RMOnShare
    \/ RMOnConnected
    \/ RMAdvance

SpecRM == RMInit /\ [][RMNext]_vars

\* =================================================================== claims
Members == {"InitialMember", "Learned"}

\* the package the split of (rack_uuid, threshold, secret) holds for peer q
PkgOf(rack_uuid, threshold, secret, q) ==
    SharePkg(rack_uuid, threshold, [x |-> q, y |-> Poly(secret, threshold, q)])

\* C1: init_rack(rack_uuid, M) on an Uninitialized peer p in M, the split
\* succeeding, returns persist = true and no api_output, with exactly one Init
\* request per member of M \ {p} in ascending peer order (none to p, nobody
\* twice), each carrying that member's package; p becomes InitialMember with
\* its own package and a fresh RackInitState (started now, acked by p alone).
C1_InitRackOutput ==
    \A p \in Driven : fsm[p].state = "Uninitialized" =>
      \A M \in SUBSET Peers : \A threshold \in 2..Cardinality(Peers) :
        \A secret \in Secrets :
          (p \in M /\ CreatePkgs(racks + 1, M, threshold, secret).ok) =>
            LET r == InitRackResult(p, fsm[p], common[p], racks + 1, M,
                                    threshold, secret, NewId(p))
                others == SortedSeq(M \ {p})
                env == r.output.envelopes
            IN /\ r.output.persist = TRUE
               /\ r.output.api_output = NoneV
               /\ Len(env) = Cardinality(M \ {p})
               /\ \A i \in 1..Len(env) :
                    /\ env[i].to = others[i]
                    /\ env[i].to # p
                    /\ env[i].msg =
                         Request(NewId(p), "Init",
                                 Some(PkgOf(racks + 1, threshold, secret, others[i])))
               /\ \A i, j \in 1..Len(env) : i < j => env[i].to < env[j].to
               /\ r.state.state = "InitialMember"
               /\ r.state.pkg = Some(PkgOf(racks + 1, threshold, secret, p))
               /\ r.state.rack_init_state =
                    Some(RackInitState(common[p].clock, Cardinality(M), {p}))
               /\ r.state.rack_secret_state = RackSecretNone
               /\ r.common = common[p]

\* a peer has just initialized a rack of three, after its clock has advanced,
\* and holds its fresh RackInitState
C1_Witness ==
    /\ out.op = "init_rack"
    /\ out.output.persist
    /\ Len(out.output.envelopes) = 2
    /\ fsm[out.peer].state = "InitialMember"
    /\ common[out.peer].clock > 0
    /\ fsm[out.peer].rack_init_state =
         Some(RackInitState(common[out.peer].clock, 3, {out.peer}))

\* C2: an Uninitialized peer that handles Init(pkg) from peer s becomes
\* InitialMember holding pkg; the Output has persist = true, no api_output and
\* exactly one envelope, an InitAck response to s under the request's id.
C2_HandleInit ==
    \A p \in Driven : fsm[p].state = "Uninitialized" =>
      \A s \in Peers \ {p} : \A id \in ReqIds(s) :
        \A pkg \in {WorldPkg(world, q) : q \in Peers} :
          LET r == HandleResult(fsm[p], common[p], s,
                                Request(id, "Init", Some(pkg)))
          IN /\ r.state.state = "InitialMember"
             /\ r.state.pkg = Some(pkg)
             /\ r.output.persist = TRUE
             /\ r.output.api_output = NoneV
             /\ Len(r.output.envelopes) = 1
             /\ r.output.envelopes[1].to = s
             /\ r.output.envelopes[1].msg = Response(id, "InitAck", {})

\* the driven peer has just answered an Init request with an InitAck
C2_Witness ==
    /\ out.op = "handle"
    /\ out.output.persist
    /\ Len(out.output.envelopes) = 1
    /\ out.output.envelopes[1].msg.type = "InitAck"
    /\ fsm[me].state = "InitialMember"
    /\ fsm[me].pkg = Some(WorldPkg(world, me))

\* the members of the rack peer p is initializing: p and the peers it sent
\* the packages of that rack to
InitMembers(p) ==
    {p} \cup {m.to : m \in {n \in net :
                 /\ n.from = p
                 /\ n.msg.kind = "Req"
                 /\ n.msg.type = "Init"
                 /\ The(n.msg.body).rack_uuid = The(fsm[p].pkg).rack_uuid}}

\* C3: at the initializer of a rack of N members, the InitAck of another
\* member yields an empty Output (no envelopes, no api_output, no persist) and
\* only records the ack, unless it is the ack after which all N-1 other
\* members have acknowledged: that one yields RackInitComplete and clears the
\* RackInitState. This holds whatever order the acks arrive in.
C3_AcksUntilLast ==
    \A p \in Peers :
      (fsm[p].rack_init_state # NoneV
         /\ The(fsm[p].rack_init_state).acks \subseteq InitMembers(p)) =>
        LET ris == The(fsm[p].rack_init_state)
        IN /\ p \in ris.acks
           /\ ris.acks # InitMembers(p)
           /\ \A from \in InitMembers(p) \ ris.acks : \A n \in 1..2 :
                LET r == HandleResult(fsm[p], common[p], from,
                                      Response(<<p, n>>, "InitAck", {}))
                IN IF ris.acks \cup {from} = InitMembers(p)
                   THEN /\ r.output = ApiOk("RackInitComplete", 0)
                        /\ r.state.rack_init_state = NoneV
                   ELSE /\ r.output = OutputNone
                        /\ r.state.rack_init_state =
                             Some(RackInitState(ris.start, ris.total_members,
                                                ris.acks \cup {from}))

\* the initializer of a rack of three has handled the last of the two acks
C3_Witness ==
    \E p \in Peers :
        /\ out = Op("handle", p, ApiOk("RackInitComplete", 0))
        /\ fsm[p].state = "InitialMember"
        /\ fsm[p].rack_init_state = NoneV
        /\ Cardinality(InitMembers(p)) = 3
        /\ done[p] = 1

\* C4: delivering the same InitAck twice to the tracker of a rack
\* initialization produces completion exactly once over the run: it is never
\* reported twice, and once every awaited peer has acked (one of them more
\* than once) it has been reported.
C4_AckCompletesOnce ==
    \A id \in DOMAIN ledger :
        /\ ledger[id].completions <= 1
        /\ (/\ ledger[id].awaited # {}
            /\ ledger[id].repeated
            /\ ledger[id].awaited \subseteq ledger[id].acked)
           => ledger[id].completions = 1

C6_DistinctShares ==
    [][(ret'.op = "on_share" /\ ~panicked)
       => LET id == ret'.id
          IN IF ret'.val # NoneV
             THEN /\ Cardinality(ledger'[id].acked) = The(ret'.val).acks.threshold
                  /\ DOMAIN The(ret'.val).acks.shares = ledger'[id].acked
                  /\ ledger'[id].completions = 1
                  /\ id \notin DOMAIN requests'
             ELSE id \in DOMAIN requests' /\ requests'[id].type # "InitRack"
                  => /\ Cardinality(ledger'[id].acked) < requests'[id].acks.threshold
                     /\ DOMAIN requests'[id].acks.shares = ledger'[id].acked]_vars

\* a LoadRackSecret request with threshold 3 has completed although one of
\* its contributors delivered its share more than once
C6_Witness ==
    /\ ret.op = "on_share"
    /\ ret.val # NoneV
    /\ The(ret.val).type = "LoadRackSecret"
    /\ The(ret.val).acks.threshold = 3
    /\ ledger[ret.id].repeated
    /\ Cardinality(ledger[ret.id].acked) = 3

\* C7: a member that has called load_rack_secret leaves the collecting state
\* exactly at the share response that brings its distinct shares, its own
\* included, to the threshold: that step returns the reconstructed secret as
\* api_output; an earlier share only joins the map. Once resolved, the
\* collecting map is gone and only the secret is held.
C7_ResolveAtThreshold ==
    \A p \in Driven : fsm[p].state \in Members =>
      LET rs == fsm[p].rack_secret_state
          T == The(fsm[p].pkg).threshold
      IN /\ rs.tag = "Secret" => rs.shares = EmptyMap /\ rs.secret = world.secret
         /\ rs.tag = "Shares" =>
              /\ p \in DOMAIN rs.shares
              /\ Cardinality(DOMAIN rs.shares) < T
              /\ common[p].pending_api_rack_secret_request # NoneV
              /\ \A q \in Peers \ {p} :
                   LET r == HandleResult(fsm[p], common[p], q,
                              Response(<<p, 1>>, "Share", Some(WorldShare(world, q))))
                       got == DOMAIN rs.shares \cup {q}
                   IN IF Cardinality(got) = T
                      THEN /\ r.state.rack_secret_state =
                                RackSecretSecret(world.secret)
                           /\ r.output.api_output =
                                Some([tag |-> "Ok", val |-> "RackSecret",
                                      data |-> world.secret])
                      ELSE /\ r.state.rack_secret_state.tag = "Shares"
                           /\ DOMAIN r.state.rack_secret_state.shares = got
                           /\ r.output = OutputNone

\* the driven member of a rack with threshold 3 has just resolved the secret
C7_Witness ==
    /\ out.op = "handle"
    /\ out.output.api_output =
         Some([tag |-> "Ok", val |-> "RackSecret", data |-> world.secret])
    /\ fsm[me].rack_secret_state = RackSecretSecret(world.secret)
    /\ The(fsm[me].pkg).threshold = 3

\* the peers that hold a package of rack u, and the peers one was sent to
Holders(u) ==
    {p \in Peers : fsm[p].pkg # NoneV /\ The(fsm[p].pkg).rack_uuid = u}

Invited(u) ==
    {m.to : m \in {n \in net : /\ n.msg.kind = "Req"
                               /\ n.msg.type = "Init"
                               /\ The(n.msg.body).rack_uuid = u}}

\* C8: once the initialization of a rack with threshold T has reached all its
\* peers, the shares held by any T distinct peers of it reconstruct one and
\* the same secret, the one that was split, whichever T peers are chosen.
C8_AnyQuorumSameSecret ==
    \A u \in 1..racks :
      (Invited(u) # {} /\ Invited(u) \subseteq Holders(u)) =>
        \E secret \in Secrets :
          \A S \in SUBSET Holders(u) :
            (\A p \in S : Cardinality(S) = The(fsm[p].pkg).threshold) =>
              (S = {} \/ Reconstruct({The(fsm[p].pkg).share : p \in S}) = secret)

\* a rack of three with threshold 2 is initialized at all peers and the
\* initializer has seen RackInitComplete
C8_Witness ==
    \E p \in Peers :
        /\ done[p] = 1
        /\ Holders(1) = Peers
        /\ Invited(1) = Peers \ {p}
        /\ The(fsm[p].pkg).threshold = 2

\* C9: load_rack_secret on an InitialMember or Learned peer without
\* rack-secret state starts collecting with a map that holds exactly the
\* peer's own share under its own id, sets the pending-request marker to the
\* current clock, and returns no api_output with persist = false.
C9_LoadSeedsOwnShare ==
    [][\A p \in Peers :
         (/\ out'.op = "load_rack_secret"
          /\ out'.peer = p
          /\ fsm[p].state \in Members
          /\ fsm[p].rack_secret_state.tag = "None")
         => /\ fsm'[p].rack_secret_state.tag = "Shares"
            /\ DOMAIN fsm'[p].rack_secret_state.shares = {p}
            /\ fsm'[p].rack_secret_state.shares[p] = The(fsm[p].pkg).share
            /\ fsm'[p].state = fsm[p].state
            /\ fsm'[p].pkg = fsm[p].pkg
            /\ common'[p].pending_api_rack_secret_request = Some(common[p].clock)
            /\ common'[p].clock = common[p].clock
            /\ out'.output.api_output = NoneV
            /\ out'.output.persist = FALSE]_vars

\* a Learned peer has just started collecting, after its clock has advanced
C9_Witness ==
    /\ out.op = "load_rack_secret"
    /\ fsm[me].state = "Learned"
    /\ fsm[me].rack_secret_state.tag = "Shares"
    /\ DOMAIN fsm[me].rack_secret_state.shares = {me}
    /\ common[me].clock > 0
    /\ common[me].pending_api_rack_secret_request = Some(common[me].clock)

\* C10: load_rack_secret on an InitialMember or Learned peer without
\* rack-secret state returns a GetShare request envelope for each other peer
\* it knows, so that share collection starts with the call.
C10_LoadEmitsGetShare ==
    [][\A p \in Peers :
         (/\ out'.op = "load_rack_secret"
          /\ out'.peer = p
          /\ fsm[p].state \in Members
          /\ fsm[p].rack_secret_state.tag = "None")
         => \A q \in common[p].peers \ {p} :
              \E i \in 1..Len(out'.output.envelopes) :
                /\ out'.output.envelopes[i].to = q
                /\ out'.output.envelopes[i].msg.kind = "Req"
                /\ out'.output.envelopes[i].msg.type = "GetShare"]_vars

\* C11: load_rack_secret on a peer that is already collecting shares sets the
\* pending-request marker to the current clock and changes nothing else: the
\* collected shares, the protocol state, the clock and the peer set stay, no
\* envelope is emitted, persist is false and there is no api_output.
C11_LoadWhileCollecting ==
    [][\A p \in Peers :
         (/\ out'.op = "load_rack_secret"
          /\ out'.peer = p
          /\ fsm[p].state \in Members
          /\ fsm[p].rack_secret_state.tag = "Shares")
         => /\ fsm' = fsm
            /\ common' = [common EXCEPT ![p].pending_api_rack_secret_request =
                                            Some(common[p].clock)]
            /\ out'.output = OutputNone
            /\ net' = net]_vars

\* a peer that holds two of the three shares it needs has been asked again,
\* after its clock has advanced
C11_Witness ==
    /\ out.op = "load_rack_secret"
    /\ fsm[me].state \in Members
    /\ fsm[me].rack_secret_state.tag = "Shares"
    /\ Cardinality(DOMAIN fsm[me].rack_secret_state.shares) = 2
    /\ common[me].clock > 0
    /\ common[me].pending_api_rack_secret_request = Some(common[me].clock)

\* C12: load_rack_secret on a peer whose rack secret is resolved returns the
\* cached secret as api_output with persist = false and no envelopes, and
\* leaves the whole Fsm (protocol state, marker, clock, peer set) unchanged,
\* so that repeated calls return the same secret.
C12_LoadResolved ==
    [][\A p \in Peers :
         (/\ out'.op = "load_rack_secret"
          /\ out'.peer = p
          /\ fsm[p].state \in Members
          /\ fsm[p].rack_secret_state.tag = "Secret")
         => /\ fsm' = fsm
            /\ common' = common
            /\ net' = net
            /\ out'.output = ApiOk("RackSecret", fsm[p].rack_secret_state.secret)
            /\ out'.output.persist = FALSE
            /\ out'.output.envelopes = << >>
            /\ LoadRackSecretResult(p, fsm'[p], common'[p]).output = out'.output]_vars

\* a peer with a resolved secret has answered a load from its cache, with its
\* clock advanced and peers known
C12_Witness ==
    /\ out.op = "load_rack_secret"
    /\ fsm[me].rack_secret_state.tag = "Secret"
    /\ out.output.api_output # NoneV
    /\ The(out.output.api_output).val = "RackSecret"
    /\ The(out.output.api_output).data = world.secret
    /\ common[me].clock > 0
    /\ common[me].peers # {}

\* C13: load_rack_secret returns RackNotInitialized on an Uninitialized peer
\* and StillLearning on a Learning peer, with persist = false, no envelopes
\* and no change of Fsm state: no marker is set, no secret state is created.
C13_LoadRejected ==
    [][\A p \in Peers :
         (/\ out'.op = "load_rack_secret"
          /\ out'.peer = p
          /\ fsm[p].state \in {"Uninitialized", "Learning"})
         => /\ out'.output =
                 ApiErr(IF fsm[p].state = "Uninitialized"
                        THEN "RackNotInitialized" ELSE "StillLearning")
            /\ out'.output.persist = FALSE
            /\ out'.output.envelopes = << >>
            /\ fsm' = fsm
            /\ common' = common
            /\ net' = net
            /\ common'[p].pending_api_rack_secret_request = NoneV
            /\ fsm'[p].rack_secret_state = RackSecretNone]_vars

\* a Learning peer with an attempt under way has refused a load
C13_Witness ==
    /\ out.op = "load_rack_secret"
    /\ fsm[me].state = "Learning"
    /\ fsm[me].attempt # NoneV
    /\ out.output = ApiErr("StillLearning")

\* what init_learner leaves at p when it starts an attempt: Learning, one
\* attempt that expires learn_timeout after the clock of the call, and one
\* Learn request to the attempt's peer, which p knew at the call
StartedAttempt(p) ==
    /\ fsm'[p].state = "Learning"
    /\ Cardinality(fsm'[p].attempt) = 1
    /\ The(fsm'[p].attempt).expiry = common[p].clock + Config.learn_timeout
    /\ The(fsm'[p].attempt).peer \in common[p].peers
    /\ out'.output.persist = FALSE
    /\ out'.output.api_output = NoneV
    /\ Len(out'.output.envelopes) = 1
    /\ out'.output.envelopes[1].to = The(fsm'[p].attempt).peer
    /\ out'.output.envelopes[1].msg.kind = "Req"
    /\ out'.output.envelopes[1].msg.type = "Learn"
    /\ common' = common

\* C14 (as amended): init_learner on an Uninitialized peer that knows at least
\* one peer moves it to Learning with exactly one outstanding learn attempt
\* whose expiry is the current clock plus learn_timeout, and emits one Learn
\* request addressed to a peer of the known-peers set at that moment; the call
\* moves the peer to Learning also when it knows no peer; in every reachable
\* state a Learning peer holds at most one learn attempt and any other peer
\* holds none.
C14_InitLearnerKnownPeer ==
    [][\A p \in Peers :
         /\ (/\ out'.op = "init_learner"
             /\ out'.peer = p
             /\ fsm[p].state = "Uninitialized")
            => /\ fsm'[p].state = "Learning"
               /\ common[p].peers # {} => StartedAttempt(p)
         /\ Cardinality(fsm'[p].attempt) <= 1
         /\ fsm'[p].state # "Learning" => fsm'[p].attempt = NoneV]_vars

\* a peer has become a learner after its clock advanced, with an attempt
\* towards one of two known peers
C14_Witness ==
    /\ out.op = "init_learner"
    /\ fsm[me].state = "Learning"
    /\ fsm[me].attempt # NoneV
    /\ common[me].clock > 0
    /\ The(fsm[me].attempt).expiry = common[me].clock + Config.learn_timeout
    /\ Cardinality(common[me].peers) = 2
    /\ Len(out.output.envelopes) = 1

\* C14: init_learner on an Uninitialized peer moves it to Learning with
\* exactly one outstanding learn attempt whose expiry is the current clock
\* plus learn_timeout, and emits one Learn request addressed to a peer that is
\* in the known-peers set at that moment; in every reachable state a Learning
\* peer holds at most one learn attempt.
C14_InitLearnerOneAttempt ==
    [][\A p \in Peers :
         /\ (/\ out'.op = "init_learner"
             /\ out'.peer = p
             /\ fsm[p].state = "Uninitialized")
            => StartedAttempt(p)
         /\ fsm'[p].state = "Learning" => Cardinality(fsm'[p].attempt) <= 1]_vars

\* C15: init_learner on a peer that is not Uninitialized returns the
\* PeerAlreadyInitialized error with persist = false and no envelopes and
\* leaves the state unchanged; a second init_learner on a Learning peer
\* neither starts a second learn attempt nor replaces the first.
C15_InitLearnerRejected ==
    [][\A p \in Peers :
         (/\ out'.op = "init_learner"
          /\ out'.peer = p
          /\ fsm[p].state # "Uninitialized")
         => /\ out'.output = ApiErr("PeerAlreadyInitialized")
            /\ out'.output.persist = FALSE
            /\ out'.output.envelopes = << >>
            /\ fsm' = fsm
            /\ common' = common
            /\ net' = net
            /\ nreq' = nreq
            /\ fsm'[p].attempt = fsm[p].attempt]_vars

\* a learner that knows two peers and has an attempt under way has refused a
\* second init_learner
C15_Witness ==
    /\ out.op = "init_learner"
    /\ out.output = ApiErr("PeerAlreadyInitialized")
    /\ fsm[me].state = "Learning"
    /\ fsm[me].attempt # NoneV
    /\ Cardinality(common[me].peers) = 2

\* the tick at p answered an expired attempt with a new Learn request to a
\* peer p knows, and the new attempt expires learn_timeout after the tick
Retried(p) ==
    /\ fsm'[p].state = "Learning"
    /\ fsm'[p].attempt # NoneV
    /\ The(fsm'[p].attempt).peer \in common[p].peers
    /\ The(fsm'[p].attempt).expiry = common[p].clock + 1 + Config.learn_timeout
    /\ Len(out'.output.envelopes) = 1
    /\ out'.output.envelopes[1].to = The(fsm'[p].attempt).peer
    /\ out'.output.envelopes[1].msg.kind = "Req"
    /\ out'.output.envelopes[1].msg.type = "Learn"
    /\ out'.output.api_output = NoneV

\* the tick at p gave the expired attempt up and told the caller
GaveUp(p) ==
    /\ fsm'[p].attempt = NoneV
    /\ out'.output.api_output # NoneV
    /\ The(out'.output.api_output).tag = "Err"
    /\ out'.output.envelopes = << >>

\* C16: a learner whose attempt (made with learn_timeout = K ticks) got no
\* response reacts at the first tick that brings its clock to the attempt's
\* expiry or beyond: that tick's Output carries either a new Learn request to
\* a known peer with a new expiry or an api_output failure; an earlier tick
\* leaves the attempt alone; and in no reachable state does a Learning peer
\* hold an attempt whose expiry its clock has reached.
C16_LearnTimeoutReacts ==
    [][\A p \in Peers :
         /\ (/\ out'.op = "tick"
             /\ out'.peer = p
             /\ fsm[p].state = "Learning"
             /\ fsm[p].attempt # NoneV)
            => IF common[p].clock + 1 >= The(fsm[p].attempt).expiry
               THEN Retried(p) \/ GaveUp(p)
               ELSE fsm'[p] = fsm[p] /\ out'.output = OutputNone
         /\ (fsm'[p].state = "Learning" /\ fsm'[p].attempt # NoneV)
            => common'[p].clock < The(fsm'[p].attempt).expiry]_vars

\* a learner that started its only attempt at clock 0 has retried at the tick
\* that brought its clock to learn_timeout
C16_Witness ==
    /\ out.op = "tick"
    /\ racks = 0
    /\ fsm[me].state = "Learning"
    /\ fsm[me].attempt # NoneV
    /\ nreq[me] = 2
    /\ common[me].clock = Config.learn_timeout
    /\ The(fsm[me].attempt).expiry = common[me].clock + Config.learn_timeout
    /\ Len(out.output.envelopes) = 1

\* p collects shares for a load_rack_secret whose last call was at clock m
Collecting(p, m) ==
    /\ fsm[p].state \in Members
    /\ fsm[p].rack_secret_state.tag = "Shares"
    /\ common[p].pending_api_rack_secret_request = Some(m)

\* the tick at p gave the pending load up: the caller is told of the failure,
\* the marker is cleared and the collected shares are dropped
LoadFailed(p) ==
    /\ out'.output.api_output # NoneV
    /\ The(out'.output.api_output).tag = "Err"
    /\ common'[p].pending_api_rack_secret_request = NoneV
    /\ fsm'[p].rack_secret_state = RackSecretNone

\* C17: a member that collects shares for a load_rack_secret and has not
\* reached the threshold is told of the failure by a tick once
\* rack_secret_request_timeout ticks have passed since the last
\* load_rack_secret call: the first tick that brings the age of the marker
\* beyond the timeout returns an api_output failure and clears the marker,
\* earlier ticks return no api_output and keep the marker; a collecting member
\* always has a marker, never older than the timeout; and under continued
\* ticks a load pending since clock m does not stay pending.
C17_LoadTimesOut ==
    /\ [][\A p \in Peers :
            /\ \A m \in 0..MaxClock :
                 (out'.op = "tick" /\ out'.peer = p /\ Collecting(p, m))
                 => IF common[p].clock + 1 - m > Config.rack_secret_request_timeout
                    THEN LoadFailed(p)
                    ELSE /\ out'.output.api_output = NoneV
                         /\ common'[p].pending_api_rack_secret_request = Some(m)
            /\ fsm'[p].rack_secret_state.tag = "Shares"
               <=> common'[p].pending_api_rack_secret_request # NoneV
            /\ common'[p].pending_api_rack_secret_request # NoneV
               => common'[p].clock - The(common'[p].pending_api_rack_secret_request)
                    <= Config.rack_secret_request_timeout]_vars
    /\ \A m \in 0..(MaxClock - Config.rack_secret_request_timeout - 1) :
         Collecting(me, m) ~> ~Collecting(me, m)

\* a tick has just told the caller that the load timed out, at a member that
\* knows a peer and needed more shares than it held
C17_Witness ==
    /\ out.op = "tick"
    /\ out.output.api_output # NoneV
    /\ The(out.output.api_output).tag = "Err"
    /\ fsm[me].state \in Members
    /\ fsm[me].rack_secret_state = RackSecretNone
    /\ common[me].pending_api_rack_secret_request = NoneV
    /\ common[me].peers # {}

\* the changes of protocol state the design allows
AllowedTransitions ==
    {<<"Uninitialized", "InitialMember">>,
     <<"Uninitialized", "Learning">>,
     <<"Learning", "Learned">>}

\* C18: a peer's protocol state changes only along Uninitialized ->
\* InitialMember, Uninitialized -> Learning and Learning -> Learned; a peer
\* that is InitialMember or Learned stays so under every operation.
C18_StateTransitions ==
    [][\A p \in Peers :
         /\ fsm'[p].state # fsm[p].state
            => <<fsm[p].state, fsm'[p].state>> \in AllowedTransitions
         /\ fsm[p].state \in Members => fsm'[p].state = fsm[p].state]_vars

\* a peer that learned its package has since been asked to initialize again
\* and is still Learned
C18_Witness ==
    /\ fsm[me].state = "Learned"
    /\ out.op \in {"init_rack", "init_learner"}
    /\ out.output.api_output # NoneV
    /\ The(out.output.api_output).tag = "Err"

\* C19: on_init_ack with a request_id that matches no tracked request
\* returns false and does not fail, and leaves the primary map (every
\* request's received acks with it) and the expiry index unchanged.
C19_UnknownInitAck ==
    [][(ret'.op = "on_init_ack" /\ ret'.id \notin DOMAIN requests)
       => /\ ret'.val = FALSE
          /\ ~panicked'
          /\ requests' = requests
          /\ \A id \in DOMAIN requests :
               requests'[id].acks.received = requests[id].acks.received
          /\ expiry_to_id' = expiry_to_id]_vars

\* an ack for an id that is not tracked has been dropped while an InitRack
\* request that has an ack already, and its index entry, are tracked
C19_Witness ==
    /\ ret.op = "on_init_ack"
    /\ ret.id \notin DOMAIN requests
    /\ ret.val = FALSE
    /\ ~panicked
    /\ expiry_to_id # EmptyMap
    /\ \E id \in DOMAIN requests :
         /\ requests[id].type = "InitRack"
         /\ requests[id].acks.received # {}

\* C20: the Fsm clock increases by exactly one on each tick() and is changed
\* by no other operation; it always equals the number of ticks delivered to
\* the peer so far and never decreases.
C20_ClockCountsTicks ==
    [][\A p \in Peers :
         /\ (out'.op = "tick" /\ out'.peer = p)
            => common'[p].clock = common[p].clock + 1
         /\ ~(out'.op = "tick" /\ out'.peer = p)
            => common'[p].clock = common[p].clock
         /\ common'[p].clock >= common[p].clock
         /\ common[p].clock = ticks[p]
         /\ common'[p].clock = ticks'[p]]_vars

\* the second tick has been delivered to a peer that, between its ticks, was
\* initialized, asked for the rack secret and received a share
C20_Witness ==
    /\ out.op = "tick"
    /\ ticks[me] = 2
    /\ common[me].clock = 2
    /\ fsm[me].state \in Members
    /\ fsm[me].rack_secret_state.tag = "Shares"
    /\ Cardinality(DOMAIN fsm[me].rack_secret_state.shares) = 2
    /\ common[me].pending_api_rack_secret_request = Some(1)

\* C21: insert_peer and remove_peer change only the known-peers set, by
\* adding resp. removing the given id, and a repeated call changes nothing
\* more; the protocol state with everything it tracks (acks of a rack
\* initialization, collected shares, pending learn requests), the clock and
\* the pending-request marker are unchanged and the Output is empty, also
\* when the removed peer is one whose ack or share is still awaited.
C21_PeerSetOnly ==
    [][\A p \in Peers :
         (out'.peer = p /\ out'.op \in {"insert_peer", "remove_peer"})
         => /\ fsm' = fsm
            /\ common'[p].clock = common[p].clock
            /\ common'[p].pending_api_rack_secret_request
                 = common[p].pending_api_rack_secret_request
            /\ out'.output = OutputNone
            /\ net' = net
            /\ \E q \in Peers :
                 /\ common' = [common EXCEPT ![p].peers =
                                  IF out'.op = "insert_peer"
                                  THEN @ \cup {q} ELSE @ \ {q}]
                 /\ IF out'.op = "insert_peer"
                    THEN InsertPeerResult(fsm'[p], common'[p], q)
                           = Result(fsm'[p], common'[p], OutputNone)
                    ELSE RemovePeerResult(fsm'[p], common'[p], q)
                           = Result(fsm'[p], common'[p], OutputNone)]_vars

\* the only peer known to a member has been removed while the member was
\* collecting shares and had asked that peer for its share
C21_Witness ==
    /\ out.op = "remove_peer"
    /\ common[me].peers = {}
    /\ nreq[me] >= 1
    /\ racks = 0
    /\ fsm[me].state = "InitialMember"
    /\ fsm[me].rack_secret_state.tag = "Shares"
    /\ DOMAIN fsm[me].rack_secret_state.shares = {me}
    /\ common[me].pending_api_rack_secret_request # NoneV

\* the request ids the expiry index holds
IndexedIds == {expiry_to_id[e] : e \in DOMAIN expiry_to_id}

\* C22: after any sequence of new_init_rack, new_load_rack_secret, new_learn,
\* on_init_ack, on_share and expired calls, the request ids of the primary
\* map are the request ids of the expiry index, and each id appears under
\* exactly one expiry.
C22_MapsAgree ==
    ~panicked =>
        /\ DOMAIN requests = IndexedIds
        /\ \A e, f \in DOMAIN expiry_to_id :
             expiry_to_id[e] = expiry_to_id[f] => e = f

\* the expiries of the index that are due at time t
Due(t) == {e \in DOMAIN expiry_to_id : e <= t}

\* C23: expired(now), called on a tracker whose index covers its requests,
\* removes and returns exactly the tracked requests whose expiry is <= now,
\* earliest-expiring first; every request whose expiry is > now stays tracked
\* in both the primary map and the expiry index.
C23_ExpiredReturnsDue ==
    [][(ret'.op = "expired" /\ DOMAIN requests = IndexedIds)
       => LET due == SortedSeq(Due(now))
          IN /\ ~panicked'
             /\ ret'.val = [i \in 1..Len(due) |-> requests[expiry_to_id[due[i]]]]
             /\ DOMAIN expiry_to_id' = DOMAIN expiry_to_id \ Due(now)
             /\ \A e \in DOMAIN expiry_to_id \ Due(now) :
                  /\ expiry_to_id'[e] = expiry_to_id[e]
                  /\ expiry_to_id[e] \in DOMAIN requests'
                  /\ requests'[expiry_to_id[e]] = requests[expiry_to_id[e]]
             /\ \A e \in Due(now) : expiry_to_id[e] \notin DOMAIN requests']_vars

\* C24: for an InitRack request created by new_init_rack, on_init_ack(from,
\* id) returns true exactly on the call after which every peer the request
\* awaits an ack from (the peers it holds a package for) has acked, and then
\* the request is removed; it returns false on every earlier call.
C24_InitAckCompletes ==
    [][(/\ ret'.op = "on_init_ack"
        /\ ret'.id \in DOMAIN requests
        /\ requests[ret'.id].type = "InitRack")
       => LET id == ret'.id
          IN /\ ret'.val = (ledger'[id].awaited \subseteq ledger'[id].acked)
             /\ ret'.val => id \notin DOMAIN requests'
             /\ ~ret'.val => id \in DOMAIN requests']_vars

\* C25: on_share(from, id, share) returns the tracked LoadRackSecret or Learn
\* request and removes it from the tracker (primary map and expiry index)
\* exactly on the call that brings its distinct contributing peers to the
\* threshold; it returns nothing while the threshold is not reached, and it
\* returns nothing and leaves the tracker unchanged when the id is unknown,
\* already completed, or names an InitRack request.
C25_OnShareCompletes ==
    [][ret'.op = "on_share"
       => LET id == ret'.id
          IN IF id \in DOMAIN requests /\ requests[id].type # "InitRack"
             THEN IF Cardinality(ledger'[id].acked) = requests[id].acks.threshold
                  THEN /\ ret'.val # NoneV
                       /\ The(ret'.val).type = requests[id].type
                       /\ DOMAIN The(ret'.val).acks.shares = ledger'[id].acked
                       /\ id \notin DOMAIN requests'
                       /\ \A e \in DOMAIN expiry_to_id' : expiry_to_id'[e] # id
                  ELSE /\ ret'.val = NoneV
                       /\ id \in DOMAIN requests'
                       /\ DOMAIN requests'[id].acks.shares = ledger'[id].acked
             ELSE /\ ret'.val = NoneV
                  /\ requests' = requests
                  /\ expiry_to_id' = expiry_to_id]_vars

\* peer has acknowledged tracked request id
Acked(id, peer) ==
    IF requests[id].type = "InitRack"
    THEN peer \in requests[id].acks.received
    ELSE peer \in DOMAIN requests[id].acks.shares

\* the envelope on_connected owes peer for tracked request id
OwedEnvelope(id, peer) ==
    IF requests[id].type = "InitRack"
    THEN Envelope(peer, Request(id, "Init", Some(requests[id].packages[peer])))
    ELSE Envelope(peer, Request(id, "GetShare", Some(requests[id].rack_uuid)))

\* C26 (as amended): on_connected(peer) returns exactly one request envelope,
\* addressed to peer and carrying the tracked request's id, for every
\* outstanding request that peer has not yet acknowledged and, for InitRack,
\* that holds a package for peer (Init with that package; GetShare for
\* LoadRackSecret and Learn); it returns no envelope for a request the peer
\* has acknowledged or an InitRack request without a package for peer, and
\* does not modify the tracker.
C26_OnConnectedOwed ==
    ~panicked =>
      \A peer \in Peers :
        LET r == on_connected(requests, expiry_to_id, peer)
            owed == {id \in DOMAIN requests :
                        /\ ~Acked(id, peer)
                        /\ requests[id].type = "InitRack"
                           => peer \in DOMAIN requests[id].packages}
        IN /\ r.requests = requests
           /\ r.expiry_to_id = expiry_to_id
           /\ ~r.panicked
           /\ Len(r.val) = Cardinality(owed)
           /\ \A id \in owed :
                \E i \in 1..Len(r.val) : r.val[i] = OwedEnvelope(id, peer)

\* on_connected has returned one envelope, an Init, to a peer that has
\* answered the other outstanding request, a share request, already
C26_Witness ==
    /\ ret.op = "on_connected"
    /\ ~panicked
    /\ Len(ret.val) = 1
    /\ ret.val[1].msg.type = "Init"
    /\ Cardinality(DOMAIN requests) = 2
    /\ \E id \in DOMAIN requests :
         /\ requests[id].type # "InitRack"
         /\ Acked(id, ret.val[1].to)

\* C26: on_connected(peer) returns one request envelope, addressed to peer
\* and carrying the tracked request's id, for every outstanding request that
\* peer has not yet acknowledged (Init for InitRack, GetShare for
\* LoadRackSecret and Learn), returns no envelope for a request the peer has
\* already acknowledged, and does not modify the tracker.
C26_OnConnectedAll ==
    ~panicked =>
      \A peer \in Peers :
        LET r == on_connected(requests, expiry_to_id, peer)
            unacked == {id \in DOMAIN requests : ~Acked(id, peer)}
        IN /\ r.requests = requests
           /\ r.expiry_to_id = expiry_to_id
           /\ Len(r.val) = Cardinality(unacked)
           /\ \A id \in unacked :
                \E i \in 1..Len(r.val) :
                   /\ r.val[i].to = peer
                   /\ r.val[i].msg.kind = "Req"
                   /\ r.val[i].msg.id = id
                   /\ r.val[i].msg.type
                        = IF requests[id].type = "InitRack" THEN "Init" ELSE "GetShare"

\* C27: expired(now) never fails on a missing request: after any sequence of
\* operations, including ones in which on_init_ack or on_share completed and
\* removed a request before its expiry, every request id that expired() pops
\* from the expiry index is still in the primary map, so the unwrap on
\* removal does not panic.
C27_ExpiredNeverPanics ==
    [][ret'.op = "expired" => ~panicked']_vars

\* C28: requests created with the same expiry instant are all recorded in the
\* expiry index: every request of the primary map has an entry in the index
\* by which expired() can reach it, so none is left without a way to expire.
C28_SameExpiryBothIndexed ==
    ~panicked =>
        \A id \in DOMAIN requests :
            \E e \in DOMAIN expiry_to_id : expiry_to_id[e] = id

\* C29: after any init_rack call that returns persist = true with Init
\* envelopes, the calling peer is InitialMember and holds a share package,
\* also when the caller's own id is not in initial_membership; so a further
\* init_rack at that peer is refused and packages are not distributed twice.
C29_InitRackCallerInitialized ==
    [][\A p \in Peers :
         (/\ out'.op = "init_rack"
          /\ out'.peer = p
          /\ out'.output.persist
          /\ Len(out'.output.envelopes) > 0)
         => /\ fsm'[p].state = "InitialMember"
            /\ fsm'[p].pkg # NoneV]_vars

\* C30: in every tracked InitRack request the received-ack set is a subset of
\* the expected-ack set: an InitAck from a sender that is not an expected
\* acknowledger of the request is not recorded.
C30_ReceivedWithinExpected ==
    ~panicked =>
        \A id \in DOMAIN requests :
            requests[id].type = "InitRack"
            => requests[id].acks.received \subseteq requests[id].acks.expected
====
